---- MODULE Spec2Model ----
(***************************************************************************)
(* Well Log Viewer: the zoom coordinator, crosshair broadcast, well-top    *)
(* linking and Y-axis linking of WellLogViewer / FigureWidget, modelled    *)
(* from src/other_code/Shivam_welltop_linkPro.py.                          *)
(*                                                                         *)
(* Conventions.                                                            *)
(*  - Python None is the string "None" for string-valued fields and the    *)
(*    empty tuple <<>> for tuple-valued fields (same truthiness: falsy).   *)
(*  - A zoom rect is <<xmin, xmax, ymin, ymax>>; an axis' limits are       *)
(*    <<xleft, xright, ybottom, ytop>>, the arguments of set_xlim/set_ylim.*)
(*  - Qt signal connections: zoomChanged is connected only to              *)
(*    handleSyncZoom and handleSingleZoom, so a widget's connections are   *)
(*    two counts.  connect() adds a connection even if the slot is already *)
(*    connected; disconnect(slot) removes one connection of that slot and  *)
(*    raises TypeError (caught by the code) when there is none.  The two   *)
(*    handlers commute (they push the same rect and assign different       *)
(*    coordinator fields), so the order of invocation is not kept.         *)
(*  - The plotting library is taken to set the limits it is asked to set.  *)
(***************************************************************************)
EXTENDS Integers, Sequences, FiniteSets, TLC

(* ---------------------------- bounds ----------------------------------- *)
MaxEvents == 3
MaxTracks == 1
MaxTops == 3
MaxCurves == 2

(* ---------------------------- inputs ----------------------------------- *)
None == "None"
NoTuple == <<>>

WellNames == {"W1", "W2"}

\* LAS files offered to load_las_files: the well each one yields, "None" for
\* a file lasio cannot read or that has no depth column.
LasFiles == {"w1.las", "w2.las", "bad.las"}
LasWell(f) == CASE f = "w1.las" -> "W1" [] f = "w2.las" -> "W2" [] OTHER -> None

\* depth.min() and depth.max() of a loaded well's DEPT column.
DepthMin(w) == IF w = "W1" THEN 0 ELSE 50
DepthMax(w) == IF w = "W1" THEN 100 ELSE 200

\* Zoom drags <<x0, y0, x1, y1>>: press point and release point; and clicks
\* without drag (press and release at the same point).
ZoomDrags == { <<10, 60, 20, 80>>, <<20, 90, 10, 70>> }
ZoomClicks == { <<10, 60, 10, 60>> }

\* Pointer positions <<xdata, ydata>> of motion events inside an axes.
HoverPoints == { <<15, 65>>, <<15, 75>> }

\* Rows of well-top files, <<well, top, md>>.
TopFiles == { << <<"W1", "TopA", 500>>, <<"W2", "TopA", 520>>, <<"W1", "TopB", 700>> >>,
              << <<"W1", "TopA", 510>> >> }

(* ---------------------------- helpers ---------------------------------- *)
Min2(a, b) == IF a <= b THEN a ELSE b
Max2(a, b) == IF a >= b THEN a ELSE b
SetMin(S) == CHOOSE m \in S : \A n \in S : m <= n
SetMax(S) == CHOOSE m \in S : \A n \in S : m >= n
Range(s) == { s[i] : i \in DOMAIN s }
Restrict(f, S) == [x \in S |-> f[x]]

VARIABLES
    wells,                    \* keys of self.wells
    well_list,                \* items of self.well_list, in order
    well_checked,             \* items of well_list whose check state is Checked
    well_tops,                \* self.well_tops: well -> sequence of <<top, md>>
    top_items,                \* items of self.well_tops_list
    top_checked,              \* items of well_tops_list that are Checked
    selected_top_names,       \* self.selected_top_names
    tracks,                   \* self.tracks
    figure_widgets,           \* self.figure_widgets: well -> FigureWidget
    figure_layout,            \* FigureWidgets of self.figure_layout, in order
    conn_widgets,             \* connection subplots of self.figure_layout
    show_well_tops,
    sync_zoom_enabled,
    current_single_zoom_well,
    single_zoom_limits,
    sync_zoom_limits,
    share_y_axis_enabled,
    link_well_tops_enabled,
    sync_zoom_action,         \* checked state of the "Sync Zoom" menu action
    share_y_axis_action,      \* checked state of the "Link Y Axis" menu action
    lastOp,                   \* history: the event handled last
    scen,                     \* history: zooms then undos on one well
    zoom_count,               \* history: zoom gestures and mode toggles so far
    template_file             \* << template_data >> of the file saved last

vars == << wells, well_list, well_checked, well_tops, top_items, top_checked,
           selected_top_names, tracks, figure_widgets, figure_layout,
           conn_widgets, show_well_tops, sync_zoom_enabled,
           current_single_zoom_well, single_zoom_limits, sync_zoom_limits,
           share_y_axis_enabled, link_well_tops_enabled, sync_zoom_action,
           share_y_axis_action, lastOp, scen, zoom_count,
           template_file >>

storeVars == << wells, well_list, well_checked >>
topVars == << well_tops, top_items, top_checked, selected_top_names >>
zoomVars == << sync_zoom_enabled, current_single_zoom_well, single_zoom_limits,
               sync_zoom_limits, sync_zoom_action >>
flagVars == << show_well_tops, share_y_axis_enabled, link_well_tops_enabled,
               share_y_axis_action >>
plotVars == << figure_widgets, figure_layout, conn_widgets >>
histVars == << zoom_count >>

(* ------------------------- FigureWidget -------------------------------- *)

\* The axes update_plot builds: one "No tracks" axes, else one per track
\* (a new track's only curve is "Select Curve", which adds no twin axes).
NumAxes(tr) == IF Len(tr) = 0 THEN 1 ELSE Len(tr)

\* The limits of each axes right after FigureWidget.update_plot has drawn:
\* matplotlib's default (0, 1) where nothing is plotted, and
\* set_ylim(depth.max(), depth.min()) on a track's axes.
AutoLimits(w, tr) ==
    [a \in 1..NumAxes(tr) |->
        IF Len(tr) = 0 THEN <<0, 1, 0, 1>>
        ELSE <<0, 1, DepthMax(w), DepthMin(w)>>]

\* FigureWidget.__init__
NewFigureWidget(w) ==
    [ well_name |-> w,
      lim |-> <<>>,
      initial_limits |-> NoTuple,
      current_zoom_limits |-> NoTuple,
      zoom_history |-> <<>>,
      zoom_mode |-> None,
      nSync |-> 0,
      nSingle |-> 0,
      peers |-> {},
      crosshair_hlines |-> <<>>,
      crosshair_vline |-> NoTuple,
      cursor_coords |-> NoTuple,
      well_top_lines |-> <<>> ]

\* xmin, xmax = sorted([x0, x1]); ymin, ymax = sorted([y0, y1])
SortedRect(g) == << Min2(g[1], g[3]), Max2(g[1], g[3]),
                    Min2(g[2], g[4]), Max2(g[2], g[4]) >>

Degenerate(r) == r[1] = r[2] \/ r[3] = r[4]

\* ax.set_xlim(xmin, xmax); ax.set_ylim(ymax, ymin)
RectLimits(r) == << r[1], r[2], r[4], r[3] >>

applyZoom(p, r) ==
    [p EXCEPT !.lim = [a \in DOMAIN p.lim |-> RectLimits(r)],
              !.current_zoom_limits = r]

recordCurrentZoom(p) ==
    IF p.current_zoom_limits # NoTuple
    THEN [p EXCEPT !.zoom_history = Append(@, p.current_zoom_limits)]
    ELSE p

\* Mutant: the undo history survives a reset.
Widget_resetZoom_keepsHistory(p) ==
    IF p.initial_limits # NoTuple
    THEN [p EXCEPT !.lim = [a \in DOMAIN p.lim |->
                               IF a \in DOMAIN p.initial_limits
                               THEN p.initial_limits[a] ELSE p.lim[a]],
                   !.current_zoom_limits = NoTuple]
    ELSE p

\* Mutant: a reset steps back one entry of the history instead of clearing it.
Widget_resetZoom_popsOne(p) ==
    IF p.zoom_history # <<>>
    THEN [p EXCEPT !.zoom_history = SubSeq(@, 1, Len(@) - 1),
                   !.lim = [a \in DOMAIN p.lim |->
                               RectLimits(p.zoom_history[Len(p.zoom_history)])],
                   !.current_zoom_limits = p.zoom_history[Len(p.zoom_history)]]
    ELSE IF p.initial_limits # NoTuple
         THEN [p EXCEPT !.lim = [a \in DOMAIN p.lim |->
                                    IF a \in DOMAIN p.initial_limits
                                    THEN p.initial_limits[a] ELSE p.lim[a]],
                        !.current_zoom_limits = NoTuple]
         ELSE p

Widget_resetZoom(p) ==
    IF p.initial_limits # NoTuple
    THEN [p EXCEPT !.lim = [a \in DOMAIN p.lim |->
                               IF a \in DOMAIN p.initial_limits
                               THEN p.initial_limits[a] ELSE p.lim[a]],
                   !.current_zoom_limits = NoTuple,
                   !.zoom_history = <<>>]
    ELSE p

\* Mutant: an undo never takes the last entry off the history.
Widget_undoZoom_keepsLast(p) ==
    IF Len(p.zoom_history) > 1
    THEN applyZoom([p EXCEPT !.zoom_history = SubSeq(@, 1, Len(@) - 1)],
                   p.zoom_history[Len(p.zoom_history)])
    ELSE p

\* Mutant: an undo with nothing to pop does nothing.
Widget_undoZoom_noopOnEmpty(p) ==
    IF p.zoom_history # <<>>
    THEN applyZoom([p EXCEPT !.zoom_history = SubSeq(@, 1, Len(@) - 1)],
                   p.zoom_history[Len(p.zoom_history)])
    ELSE p

Widget_undoZoom(p) ==
    IF p.zoom_history # <<>>
    THEN applyZoom([p EXCEPT !.zoom_history = SubSeq(@, 1, Len(@) - 1)],
                   p.zoom_history[Len(p.zoom_history)])
    ELSE IF p.initial_limits # NoTuple
         THEN Widget_resetZoom(p)
         ELSE p

remove_crosshair(p) ==
    [p EXCEPT !.crosshair_vline = NoTuple,
              !.crosshair_hlines = <<>>,
              !.cursor_coords = NoTuple]

update_crosshair(p, x, y, external) ==
    LET q == remove_crosshair(p)
    IN  [q EXCEPT !.crosshair_hlines = [a \in DOMAIN p.lim |-> y],
                  !.crosshair_vline = IF external THEN NoTuple ELSE <<x>>,
                  !.cursor_coords = IF external THEN NoTuple ELSE <<x, y>>]

\* figure.get_axes() is never empty once update_plot has run.
on_external_crosshair(p, x, y) ==
    IF p.lim # <<>> THEN update_crosshair(p, x, y, TRUE) ELSE p

\* Mutant: a redraw starts the undo history afresh.
Widget_update_plot_clearsHistory(p, tr, lines) ==
    LET auto == AutoLimits(p.well_name, tr)
        q == [p EXCEPT !.lim = auto,
                       !.initial_limits = auto,
                       !.crosshair_hlines = <<>>,
                       !.crosshair_vline = NoTuple,
                       !.cursor_coords = NoTuple,
                       !.zoom_history = <<>>,
                       !.well_top_lines = IF Len(tr) = 0 THEN <<>> ELSE lines]
    IN  IF q.current_zoom_limits # NoTuple
        THEN applyZoom(q, q.current_zoom_limits)
        ELSE q

\* FigureWidget.update_plot: figure.clear() takes every artist off the
\* figure, the axes are rebuilt, _initial_limits is captured and a current
\* zoom is applied again.
Widget_update_plot(p, tr, lines) ==
    LET auto == AutoLimits(p.well_name, tr)
        q == [p EXCEPT !.lim = auto,
                       !.initial_limits = auto,
                       !.crosshair_hlines = <<>>,
                       !.crosshair_vline = NoTuple,
                       !.cursor_coords = NoTuple,
                       !.well_top_lines = IF Len(tr) = 0 THEN <<>> ELSE lines]
    IN  IF q.current_zoom_limits # NoTuple
        THEN applyZoom(q, q.current_zoom_limits)
        ELSE q

(* ------------------------- zoom coordinator ---------------------------- *)

\* The part of the viewer the zoom handlers read and write.
ZoomState(fw, syncl, well, singlel) ==
    [ fw |-> fw, sync_zoom_limits |-> syncl,
      current_single_zoom_well |-> well, single_zoom_limits |-> singlel ]

CurrentZoomState ==
    ZoomState(figure_widgets, sync_zoom_limits, current_single_zoom_well,
              single_zoom_limits)

\* Mutant: the synchronized handler zooms the sender's panel only.
handleSyncZoom_senderOnly(Z, sender) ==
    LET r == Z.fw[sender].current_zoom_limits
    IN  IF r = NoTuple THEN Z
        ELSE [Z EXCEPT !.sync_zoom_limits = r,
                       !.fw[sender] = recordCurrentZoom(applyZoom(@, r))]

handleSyncZoom(Z, sender) ==
    LET r == Z.fw[sender].current_zoom_limits
    IN  IF r = NoTuple THEN Z
        ELSE [Z EXCEPT !.sync_zoom_limits = r,
                       !.fw = [w \in DOMAIN Z.fw |->
                                  recordCurrentZoom(applyZoom(Z.fw[w], r))]]

handleSingleZoom(Z, sender) ==
    LET r == Z.fw[sender].current_zoom_limits
    IN  IF r = NoTuple THEN Z
        ELSE [Z EXCEPT !.current_single_zoom_well = sender,
                       !.single_zoom_limits = r,
                       !.fw = [w \in DOMAIN Z.fw |->
                                  IF Z.fw[w].well_name = sender
                                  THEN recordCurrentZoom(applyZoom(Z.fw[w], r))
                                  ELSE Z.fw[w]]]

\* zoomChanged.emit(sender): every connection of the sender's signal runs.
RECURSIVE RunSyncHandlers(_, _, _)
RunSyncHandlers(Z, sender, n) ==
    IF n = 0 THEN Z ELSE RunSyncHandlers(handleSyncZoom(Z, sender), sender, n - 1)

RECURSIVE RunSingleHandlers(_, _, _)
RunSingleHandlers(Z, sender, n) ==
    IF n = 0 THEN Z ELSE RunSingleHandlers(handleSingleZoom(Z, sender), sender, n - 1)

zoomChanged_emit(Z, sender) ==
    RunSingleHandlers(RunSyncHandlers(Z, sender, Z.fw[sender].nSync),
                      sender, Z.fw[sender].nSingle)

\* FigureWidget.onMouseRelease after a press at (g[1], g[2]) and a release at
\* (g[3], g[4]), both inside an axes: the rect is stored and the signal sent.
MouseReleaseResult(Z, w, g) ==
    LET r == SortedRect(g)
        Z0 == [Z EXCEPT !.fw[w].current_zoom_limits = r]
    IN  zoomChanged_emit(Z0, w)

\* Mutant: an undo steps every panel back, whatever the mode.
undoZoomResult_allPanels(Z, sync) ==
    [z |-> [Z EXCEPT !.fw = [w \in DOMAIN Z.fw |-> Widget_undoZoom(Z.fw[w])]],
     raised |-> FALSE]

\* WellLogViewer.undoZoom; raised is the KeyError of figure_widgets[...].
undoZoomResult(Z, sync) ==
    IF sync
    THEN [z |-> [Z EXCEPT !.fw = [w \in DOMAIN Z.fw |-> Widget_undoZoom(Z.fw[w])]],
          raised |-> FALSE]
    ELSE IF Z.current_single_zoom_well # None
         THEN IF Z.current_single_zoom_well \in DOMAIN Z.fw
              THEN [z |-> [Z EXCEPT !.fw[Z.current_single_zoom_well] =
                                        Widget_undoZoom(@)],
                    raised |-> FALSE]
              ELSE [z |-> Z, raised |-> TRUE]
         ELSE [z |-> Z, raised |-> FALSE]

\* WellLogViewer.resetZoom
resetZoomResult(Z, sync) ==
    IF sync
    THEN [z |-> [Z EXCEPT !.fw = [w \in DOMAIN Z.fw |-> Widget_resetZoom(Z.fw[w])],
                          !.sync_zoom_limits = NoTuple],
          raised |-> FALSE]
    ELSE IF Z.current_single_zoom_well # None
         THEN IF Z.current_single_zoom_well \in DOMAIN Z.fw
              THEN [z |-> [Z EXCEPT !.fw[Z.current_single_zoom_well] =
                                        Widget_resetZoom(@),
                                    !.current_single_zoom_well = None,
                                    !.single_zoom_limits = NoTuple],
                    raised |-> FALSE]
              ELSE [z |-> Z, raised |-> TRUE]
         ELSE [z |-> Z, raised |-> FALSE]

disableSingleZoom(fw) ==
    [w \in DOMAIN fw |-> [fw[w] EXCEPT !.nSingle = IF @ > 0 THEN @ - 1 ELSE 0]]

enableSyncZoom(fw) ==
    [w \in DOMAIN fw |-> [fw[w] EXCEPT !.zoom_mode = "Rectangular",
                                       !.nSync = @ + 1]]

disableSyncZoom(fw) ==
    [w \in DOMAIN fw |-> [fw[w] EXCEPT !.zoom_mode = "Rectangular",
                                       !.nSync = IF @ > 0 THEN @ - 1 ELSE 0,
                                       !.nSingle = @ + 1]]

enableSingleZoom(fw) ==
    [w \in DOMAIN fw |-> [fw[w] EXCEPT !.zoom_mode = "Rectangular",
                                       !.nSingle = @ + 1]]

\* Mutant: a single zoom is not carried over to the synchronized mode.
onSyncZoomToggledResult_noPromotion(Z, checked) ==
    IF checked
    THEN [Z EXCEPT !.fw = enableSyncZoom(disableSingleZoom(Z.fw))]
    ELSE [Z EXCEPT !.fw = enableSingleZoom(disableSyncZoom(Z.fw))]

\* WellLogViewer.onSyncZoomToggled(checked)
onSyncZoomToggledResult(Z, checked) ==
    IF checked
    THEN LET fw1 == enableSyncZoom(disableSingleZoom(Z.fw))
         IN  IF Z.single_zoom_limits # NoTuple
             THEN [Z EXCEPT !.sync_zoom_limits = Z.single_zoom_limits,
                            !.fw = [w \in DOMAIN fw1 |->
                                       recordCurrentZoom(
                                           applyZoom(fw1[w], Z.single_zoom_limits))]]
             ELSE [Z EXCEPT !.fw = fw1]
    ELSE [Z EXCEPT !.fw = enableSingleZoom(disableSyncZoom(Z.fw))]

(* --------------------------- AxisLinker -------------------------------- *)

\* Mutant: the check state of the list items is not looked at.
selected_wells_all(list, checked) == list

selected_wells(list, checked) == SelectSeq(list, LAMBDA w : w \in checked)

\* WellLogViewer.synchronizeYAxisLimits
\* Mutant: the first visible well's current depth window is copied to all.
synchronizeYAxisLimits_firstWell(fw, sel) ==
    IF DOMAIN fw = {} \/ sel = <<>> \/ sel[1] \notin DOMAIN fw THEN fw
    ELSE LET first == fw[sel[1]].lim[1]
         IN  [w \in DOMAIN fw |->
                 [fw[w] EXCEPT !.lim = [a \in DOMAIN fw[w].lim |->
                     << fw[w].lim[a][1], fw[w].lim[a][2], first[3], first[4] >>]]]

synchronizeYAxisLimits(fw, sel) ==
    IF DOMAIN fw = {} \/ sel = <<>> THEN fw
    ELSE LET y_min == SetMin({ DepthMin(w) : w \in Range(sel) })
             y_max == SetMax({ DepthMax(w) : w \in Range(sel) })
         IN  [w \in DOMAIN fw |->
                 [fw[w] EXCEPT !.lim = [a \in DOMAIN fw[w].lim |->
                     << fw[w].lim[a][1], fw[w].lim[a][2], y_max, y_min >>]]]

(* ------------------------ TopCorrelationLinker ------------------------- *)

\* {t: md for t, md in self.well_tops.get(well, []) if t in selected}: a
\* later entry of a name replaces an earlier one.
TopsDict(wt, well, stn) ==
    LET entries == IF well \in DOMAIN wt THEN wt[well] ELSE <<>>
        names == { entries[i][1] : i \in DOMAIN entries } \cap stn
    IN  [t \in names |->
            entries[SetMax({ i \in DOMAIN entries : entries[i][1] = t })][2]]

\* Mutant: the right well's dict keeps the first depth of a repeated name.
linksFor_firstOfRight(wt, well1, well2, stn) ==
    LET tops1 == TopsDict(wt, well1, stn)
        entries2 == IF well2 \in DOMAIN wt THEN wt[well2] ELSE <<>>
        names2 == { entries2[i][1] : i \in DOMAIN entries2 } \cap stn
        tops2 == [t \in names2 |->
                     entries2[SetMin({ i \in DOMAIN entries2 : entries2[i][1] = t })][2]]
        common_tops == DOMAIN tops1 \cap DOMAIN tops2
    IN  { <<top, tops1[top], tops2[top]>> : top \in common_tops }

\* The lines one connection subplot holds: <<top, y1, y2>>.
linksFor(wt, well1, well2, stn) ==
    LET tops1 == TopsDict(wt, well1, stn)
        tops2 == TopsDict(wt, well2, stn)
        common_tops == DOMAIN tops1 \cap DOMAIN tops2
    IN  { <<top, tops1[top], tops2[top]>> : top \in common_tops }

\* WellLogViewer.draw_well_top_connections: one subplot per adjacent pair of
\* the FigureWidgets in layout order.
draw_well_top_connections(layout, wt, stn) ==
    IF Len(layout) < 2 \/ stn = {} THEN <<>>
    ELSE [i \in 1..(Len(layout) - 1) |->
             [ left |-> layout[i], right |-> layout[i + 1],
               links |-> linksFor(wt, layout[i], layout[i + 1], stn) ]]

(* ----------------------------- recompute ------------------------------- *)

\* well_top_lines of one well in WellLogViewer.update_plot
WellTopLines(wt, well, stn, show) ==
    IF well \in DOMAIN wt /\ show
    THEN SelectSeq(wt[well], LAMBDA e : e[1] \in stn)
    ELSE <<>>

\* WellLogViewer.update_plot, given what its caller has just changed; the
\* zoom coordinator's fields are read as they stand.
update_plot(sel, tr, wt, stn, show, link, sharey) ==
    LET \* mouse_moved.disconnect() on every existing widget
        fw0 == [w \in DOMAIN figure_widgets |->
                   [figure_widgets[w] EXCEPT !.peers = {}]]
        RECURSIVE PlotWells(_, _, _)
        PlotWells(i, fw, layout) ==
            IF i > Len(sel) THEN [fw |-> fw, layout |-> layout]
            ELSE
              LET well == sel[i]
                  isNew == well \notin DOMAIN fw
                  created == [NewFigureWidget(well) EXCEPT
                                 !.zoom_mode = "Rectangular",
                                 !.nSync = IF sync_zoom_enabled THEN 1 ELSE 0,
                                 !.nSingle = IF sync_zoom_enabled THEN 0 ELSE 1]
                  fw1 == IF isNew THEN fw @@ (well :> created) ELSE fw
                  layout1 == IF isNew THEN Append(layout, well) ELSE layout
                  wired == [fw1[well] EXCEPT !.peers = @ \cup (DOMAIN fw1 \ {well})]
                  drawn == Widget_update_plot(wired, tr,
                                              WellTopLines(wt, well, stn, show))
                  zoomed == IF sync_zoom_enabled /\ sync_zoom_limits # NoTuple
                            THEN applyZoom(drawn, sync_zoom_limits)
                            ELSE IF current_single_zoom_well = well
                                    /\ single_zoom_limits # NoTuple
                                 THEN applyZoom(drawn, single_zoom_limits)
                                 ELSE drawn
              IN  PlotWells(i + 1, [fw1 EXCEPT ![well] = zoomed], layout1)
        plotted == PlotWells(1, fw0, figure_layout)
        \* widgets of unselected wells are deleted, and with them the
        \* connections that lead to them
        kept == DOMAIN plotted.fw \cap Range(sel)
        fw2 == [w \in kept |-> [plotted.fw[w] EXCEPT !.peers = @ \cap kept]]
        layout2 == SelectSeq(plotted.layout, LAMBDA w : w \in kept)
        fw3 == IF sharey THEN synchronizeYAxisLimits(fw2, sel) ELSE fw2
        conn == IF link /\ Len(sel) > 1
                THEN draw_well_top_connections(layout2, wt, stn)
                ELSE <<>>
    IN  [fw |-> fw3, layout |-> layout2, conn |-> conn]

(* ------------------------------ events --------------------------------- *)

Op(op, w, r, raised) == [ op |-> op, well |-> w, rect |-> r, raised |-> raised ]

SetPlot(res) ==
    /\ figure_widgets' = res.fw
    /\ figure_layout' = res.layout
    /\ conn_widgets' = res.conn

SetZoom(Z) ==
    /\ figure_widgets' = Z.fw
    /\ sync_zoom_limits' = Z.sync_zoom_limits
    /\ current_single_zoom_well' = Z.current_single_zoom_well
    /\ single_zoom_limits' = Z.single_zoom_limits

\* One or two zooms on a well that showed its auto-fit limits, then undos:
\* <<well, first rect, second rect, undos>>
ScenAfterZoom(w, r) ==
    IF scen # NoTuple /\ scen[1] = w /\ scen[3] = NoTuple /\ scen[4] = 0
    THEN << w, scen[2], r, 0 >>
    ELSE IF /\ figure_widgets[w].current_zoom_limits = NoTuple
            /\ figure_widgets[w].zoom_history = <<>>
         THEN << w, r, NoTuple, 0 >>
         ELSE NoTuple

ScenAfterUndo ==
    IF scen # NoTuple /\ scen[3] # NoTuple /\ scen[4] < 2
    THEN << scen[1], scen[2], scen[3], scen[4] + 1 >>
    ELSE NoTuple

Init ==
    /\ wells = {}
    /\ well_list = <<>>
    /\ well_checked = {}
    /\ well_tops = << >>
    /\ top_items = {}
    /\ top_checked = {}
    /\ selected_top_names = {}
    /\ tracks = <<>>
    /\ figure_widgets = << >>
    /\ figure_layout = <<>>
    /\ conn_widgets = <<>>
    /\ show_well_tops = TRUE
    /\ sync_zoom_enabled = TRUE
    /\ current_single_zoom_well = None
    /\ single_zoom_limits = NoTuple
    /\ sync_zoom_limits = NoTuple
    /\ share_y_axis_enabled = TRUE
    /\ link_well_tops_enabled = FALSE
    /\ sync_zoom_action = FALSE
    /\ share_y_axis_action = FALSE
    /\ lastOp = Op("init", None, NoTuple, FALSE)
    /\ scen = NoTuple
    /\ zoom_count = 0
    /\ template_file = <<>>

\* Mutant: a well name that is already in the store is added again.
load_las_file_noNameCheck(st, f) ==
    LET well_name == LasWell(f)
    IN  IF well_name = None THEN st
        ELSE [ wells |-> st.wells \cup {well_name},
               list |-> Append(st.list, well_name) ]

\* WellLogViewer.load_las_file, on the store and the well list
load_las_file(st, f) ==
    LET well_name == LasWell(f)
    IN  IF well_name = None THEN st
        ELSE IF well_name \in st.wells THEN st
        ELSE [ wells |-> st.wells \cup {well_name},
               list |-> Append(st.list, well_name) ]

RECURSIVE LoadLasBatch(_, _, _, _)
LoadLasBatch(st, batch, i, k) ==
    IF i > k THEN st
    ELSE LoadLasBatch(load_las_file(st, batch[i]), batch, i + 1, k)

\* The selections the file dialog returns.
LasBatches == { << "w1.las", "bad.las", "w2.las" >>, << "w2.las", "w1.las" >> }

\* WellLogViewer.load_las_files: the dialog returns batch; the progress
\* dialog is cancelled after k files (k = Len(batch): not cancelled).
load_las_files(batch, k) ==
    LET st == LoadLasBatch([wells |-> wells, list |-> well_list], batch, 1, k)
    IN  /\ wells' = st.wells
        /\ well_list' = st.list
        /\ SetPlot(update_plot(selected_wells(st.list, well_checked), tracks,
                               well_tops, selected_top_names, show_well_tops,
                               link_well_tops_enabled, share_y_axis_enabled))
        /\ lastOp' = Op("other", None, << batch, k >>, FALSE)
        /\ UNCHANGED template_file
        /\ scen' = NoTuple
        /\ UNCHANGED << histVars, well_checked, topVars, tracks, zoomVars, flagVars >>

\* The user checks or unchecks a well: well_list.itemChanged -> update_plot
WellItemChanged(w) ==
    /\ w \in Range(well_list)
    /\ LET checked == IF w \in well_checked THEN well_checked \ {w}
                      ELSE well_checked \cup {w}
       IN  /\ well_checked' = checked
           /\ SetPlot(update_plot(selected_wells(well_list, checked), tracks,
                                  well_tops, selected_top_names, show_well_tops,
                                  link_well_tops_enabled, share_y_axis_enabled))
    /\ lastOp' = Op("other", None, NoTuple, FALSE)
    /\ UNCHANGED template_file
    /\ scen' = NoTuple
    /\ UNCHANGED << histVars, wells, well_list, topVars, tracks, zoomVars, flagVars >>

\* CurveControl.__init__: the curve name is not kept, no variant of the
\* template code saves or restores it.
NewCurveControl ==
    [ width |-> 1, color |-> "#000000", line_style |-> "Solid", flip |-> FALSE,
      x_min |-> "", x_max |-> "", scale |-> "Linear" ]

\* TrackControl.__init__: a track starts with one curve.
NewTrackControl(number) ==
    [ number |-> number, bg_color |-> "#FFFFFF", grid |-> FALSE, flip_y |-> FALSE,
      y_min |-> "", y_max |-> "", curves |-> << NewCurveControl >> ]

\* WellLogViewer.add_track
add_track ==
    /\ wells # {}
    /\ Len(tracks) < MaxTracks
    /\ LET tr == Append(tracks, NewTrackControl(Len(tracks) + 1))
       IN  /\ tracks' = tr
           /\ SetPlot(update_plot(selected_wells(well_list, well_checked), tr,
                                  well_tops, selected_top_names, show_well_tops,
                                  link_well_tops_enabled, share_y_axis_enabled))
    /\ lastOp' = Op("other", None, NoTuple, FALSE)
    /\ UNCHANGED template_file
    /\ scen' = NoTuple
    /\ UNCHANGED << histVars, storeVars, topVars, zoomVars, flagVars >>

\* WellLogViewer.delete_track(index) with renumber_tracks
delete_track(index) ==
    /\ index \in DOMAIN tracks
    /\ LET rest == [i \in 1..(Len(tracks) - 1) |->
                       [(IF i < index THEN tracks[i] ELSE tracks[i + 1])
                            EXCEPT !.number = i]]
       IN  /\ tracks' = rest
           /\ SetPlot(update_plot(selected_wells(well_list, well_checked), rest,
                                  well_tops, selected_top_names, show_well_tops,
                                  link_well_tops_enabled, share_y_axis_enabled))
    /\ lastOp' = Op("other", None, NoTuple, FALSE)
    /\ UNCHANGED template_file
    /\ scen' = NoTuple
    /\ UNCHANGED << histVars, storeVars, topVars, zoomVars, flagVars >>

\* A rectangle is dragged on the panel of w: onMousePress, onMouseRelease
onMouseRelease(w, g) ==
    /\ w \in DOMAIN figure_widgets
    /\ figure_widgets[w].zoom_mode = "Rectangular"
    /\ LET Z == MouseReleaseResult(CurrentZoomState, w, g)
       IN  SetZoom(Z)
    /\ zoom_count < MaxEvents
    /\ zoom_count' = zoom_count + 1
    /\ lastOp' = Op("zoom", w, SortedRect(g), FALSE)
    /\ UNCHANGED template_file
    /\ scen' = ScenAfterZoom(w, SortedRect(g))
    /\ UNCHANGED << storeVars, topVars, tracks, figure_layout, conn_widgets,
                    sync_zoom_enabled, sync_zoom_action, flagVars >>

\* "Undo Zoom"
undoZoom ==
    /\ LET res == undoZoomResult(CurrentZoomState, sync_zoom_enabled)
       IN  /\ SetZoom(res.z)
           /\ lastOp' = Op("undo", current_single_zoom_well, NoTuple, res.raised)
           /\ UNCHANGED template_file
    /\ scen' = ScenAfterUndo
    /\ UNCHANGED << histVars, storeVars, topVars, tracks, figure_layout, conn_widgets,
                    sync_zoom_enabled, sync_zoom_action, flagVars >>

\* "Reset Zoom"
resetZoom ==
    /\ LET res == resetZoomResult(CurrentZoomState, sync_zoom_enabled)
       IN  /\ SetZoom(res.z)
           /\ lastOp' = Op("reset", current_single_zoom_well, NoTuple, res.raised)
           /\ UNCHANGED template_file
    /\ scen' = NoTuple
    /\ UNCHANGED << histVars, storeVars, topVars, tracks, figure_layout, conn_widgets,
                    sync_zoom_enabled, sync_zoom_action, flagVars >>

\* The checkable "Sync Zoom" action is clicked: toggled(checked).  No more
\* than budget zoom events are explored.
SyncZoomClicked(budget) ==
    /\ LET checked == ~sync_zoom_action
           Z == onSyncZoomToggledResult(CurrentZoomState, checked)
       IN  /\ sync_zoom_action' = checked
           /\ sync_zoom_enabled' = checked
           /\ SetZoom(Z)
    /\ zoom_count < budget
    /\ zoom_count' = zoom_count + 1
    /\ lastOp' = Op("sync_toggle", None, NoTuple, FALSE)
    /\ UNCHANGED template_file
    /\ scen' = NoTuple
    /\ UNCHANGED << storeVars, topVars, tracks, figure_layout, conn_widgets,
                    flagVars >>

onSyncZoomToggled == SyncZoomClicked(MaxEvents)

\* The same click where the mode is switched on, off and on again around one
\* zoom gesture: four zoom events.
onSyncZoomToggledAgain == SyncZoomClicked(MaxEvents + 1)

\* The checkable "Link Y Axis" action is clicked: toggled(checked)
onShareYAxisToggled ==
    /\ LET checked == ~share_y_axis_action
           sel == selected_wells(well_list, well_checked)
       IN  /\ share_y_axis_action' = checked
           /\ share_y_axis_enabled' = checked
           /\ IF checked
              THEN /\ figure_widgets' = synchronizeYAxisLimits(figure_widgets, sel)
                   /\ UNCHANGED << figure_layout, conn_widgets >>
              ELSE SetPlot(update_plot(sel, tracks, well_tops, selected_top_names,
                                       show_well_tops, link_well_tops_enabled,
                                       checked))
    /\ lastOp' = Op("sharey_toggle", None, NoTuple, FALSE)
    /\ UNCHANGED template_file
    /\ scen' = NoTuple
    /\ UNCHANGED << histVars, storeVars, topVars, tracks, zoomVars, show_well_tops,
                    link_well_tops_enabled >>

(* ------------------------------ well tops ------------------------------ *)

\* The row loop of WellLogViewer.load_well_tops over rows 1..k
RECURSIVE AppendTopRows(_, _, _, _)
AppendTopRows(wt, rows, i, k) ==
    IF i > k THEN wt
    ELSE LET well == rows[i][1]
             entry == << rows[i][2], rows[i][3] >>
             wt1 == IF well \in DOMAIN wt
                    THEN [wt EXCEPT ![well] = Append(@, entry)]
                    ELSE wt @@ (well :> << entry >>)
         IN  AppendTopRows(wt1, rows, i + 1, k)

\* WellLogViewer.load_well_tops: the file parses to rows; the progress dialog
\* is cancelled after k rows (k = Len(rows): not cancelled).  It ends with
\* update_well_tops_list, which rebuilds the list with every item unchecked.
load_well_tops(rows, k) ==
    LET wt == AppendTopRows(well_tops, rows, 1, k)
    IN  /\ \A w \in DOMAIN wt : Len(wt[w]) <= MaxTops
        /\ well_tops' = wt
        /\ top_items' = UNION { { wt[w][i][1] : i \in DOMAIN wt[w] } : w \in DOMAIN wt }
        /\ top_checked' = {}
        /\ lastOp' = Op("load_well_tops", None, NoTuple, FALSE)
        /\ UNCHANGED template_file
        /\ scen' = NoTuple
        /\ UNCHANGED << histVars, storeVars, selected_top_names, tracks, plotVars,
                        zoomVars, flagVars >>

\* The user checks or unchecks a top name: WellLogViewer.well_top_item_changed
well_top_item_changed(top) ==
    /\ top \in top_items
    /\ LET nowChecked == top \notin top_checked
           stn == IF nowChecked THEN selected_top_names \cup {top}
                  ELSE selected_top_names \ {top}
       IN  /\ top_checked' = IF nowChecked THEN top_checked \cup {top}
                             ELSE top_checked \ {top}
           /\ selected_top_names' = stn
           /\ SetPlot(update_plot(selected_wells(well_list, well_checked), tracks,
                                  well_tops, stn, show_well_tops,
                                  link_well_tops_enabled, share_y_axis_enabled))
    /\ lastOp' = Op("other", None, NoTuple, FALSE)
    /\ UNCHANGED template_file
    /\ scen' = NoTuple
    /\ UNCHANGED << histVars, storeVars, well_tops, top_items, tracks, zoomVars, flagVars >>

\* WellLogViewer.toggle_link_well_tops(checked)
toggle_link_well_tops ==
    /\ link_well_tops_enabled' = ~link_well_tops_enabled
    /\ SetPlot(update_plot(selected_wells(well_list, well_checked), tracks,
                           well_tops, selected_top_names, show_well_tops,
                           ~link_well_tops_enabled, share_y_axis_enabled))
    /\ lastOp' = Op("other", None, NoTuple, FALSE)
    /\ UNCHANGED template_file
    /\ scen' = NoTuple
    /\ UNCHANGED << histVars, storeVars, topVars, tracks, zoomVars, show_well_tops,
                    share_y_axis_enabled, share_y_axis_action >>

\* WellLogViewer.toggle_well_tops
toggle_well_tops ==
    /\ show_well_tops' = ~show_well_tops
    /\ SetPlot(update_plot(selected_wells(well_list, well_checked), tracks,
                           well_tops, selected_top_names, ~show_well_tops,
                           link_well_tops_enabled, share_y_axis_enabled))
    /\ lastOp' = Op("other", None, NoTuple, FALSE)
    /\ UNCHANGED template_file
    /\ scen' = NoTuple
    /\ UNCHANGED << histVars, storeVars, topVars, tracks, zoomVars, share_y_axis_enabled,
                    link_well_tops_enabled, share_y_axis_action >>

(* ------------------------------ templates ------------------------------ *)

LineStyleItems == { "Solid", "Dashed", "Dotted", "Dash-dot" }

\* CurveControl.get_line_style: the Matplotlib code of the selected item
get_line_style(text) ==
    CASE text = "Solid" -> "-"
      [] text = "Dashed" -> "--"
      [] text = "Dotted" -> ":"
      [] text = "Dash-dot" -> "-."

\* QComboBox.setCurrentText on a combo box that is not editable: the item
\* with that text becomes current; without such an item nothing changes.
setCurrentText(items, current, text) == IF text \in items THEN text ELSE current

\* QSpinBox.setValue within setRange(1, 5)
setValue(v) == Max2(1, Min2(5, v))

\* WellLogViewer.get_curve_settings
get_curve_settings(curve) ==
    [ width |-> curve.width, color |-> curve.color,
      line_style |-> get_line_style(curve.line_style), flip |-> curve.flip,
      x_min |-> curve.x_min, x_max |-> curve.x_max, scale |-> curve.scale ]

\* WellLogViewer.get_track_settings
get_track_settings(track) ==
    [ bg_color |-> track.bg_color, grid |-> track.grid, flip_y |-> track.flip_y,
      y_min |-> track.y_min, y_max |-> track.y_max,
      curves |-> [i \in DOMAIN track.curves |-> get_curve_settings(track.curves[i])] ]

\* template_data of WellLogViewer.save_template; pickle keeps it as it is.
TemplateData(tr) ==
    [ tracks |-> [i \in DOMAIN tr |-> tr[i].number],
      track_settings |-> [i \in DOMAIN tr |-> get_track_settings(tr[i])] ]

\* One curve of WellLogViewer.apply_template: a new CurveControl, then the
\* setters.
ApplyCurveSettings(cs) ==
    [ NewCurveControl EXCEPT
        !.width = setValue(cs.width),
        !.color = cs.color,
        !.line_style = setCurrentText(LineStyleItems, @, cs.line_style),
        !.flip = cs.flip,
        !.x_min = cs.x_min,
        !.x_max = cs.x_max,
        !.scale = setCurrentText({"Linear", "Log"}, @, cs.scale) ]

\* WellLogViewer.apply_template on a well-formed template: the tracks are
\* cleared and rebuilt from zip(tracks, track_settings).
apply_template(data) ==
    [i \in 1..Min2(Len(data.tracks), Len(data.track_settings)) |->
        LET ts == data.track_settings[i]
        IN  [ NewTrackControl(data.tracks[i]) EXCEPT
                !.bg_color = ts.bg_color,
                !.grid = ts.grid,
                !.flip_y = ts.flip_y,
                !.y_min = ts.y_min,
                !.y_max = ts.y_max,
                !.curves = [j \in DOMAIN ts.curves |-> ApplyCurveSettings(ts.curves[j])] ]]

\* A control of a track or of one of its curves is edited: track.changed
\* is connected to update_plot.
TrackChanged(tr) ==
    /\ tracks' = tr
    /\ SetPlot(update_plot(selected_wells(well_list, well_checked), tr,
                           well_tops, selected_top_names, show_well_tops,
                           link_well_tops_enabled, share_y_axis_enabled))
    /\ lastOp' = Op("other", None, NoTuple, FALSE)
    /\ UNCHANGED template_file
    /\ scen' = NoTuple
    /\ UNCHANGED << histVars, storeVars, topVars, zoomVars, flagVars >>

\* The "Grid" check box of track t is clicked.
grid_stateChanged(t) ==
    /\ t \in DOMAIN tracks
    /\ TrackChanged([tracks EXCEPT ![t].grid = ~@])

\* An item of the line style box of curve c of track t is selected.
line_style_changed(t, c, style) ==
    /\ t \in DOMAIN tracks
    /\ c \in DOMAIN tracks[t].curves
    /\ style # tracks[t].curves[c].line_style
    /\ TrackChanged([tracks EXCEPT ![t].curves[c].line_style = style])

\* TrackControl.add_curve
add_curve(t) ==
    /\ t \in DOMAIN tracks
    /\ Len(tracks[t].curves) < MaxCurves
    /\ TrackChanged([tracks EXCEPT ![t].curves = Append(@, NewCurveControl)])

\* WellLogViewer.save_template with a file name chosen
save_template ==
    /\ template_file' = << TemplateData(tracks) >>
    /\ lastOp' = Op("save_template", None, NoTuple, FALSE)
    /\ scen' = NoTuple
    /\ UNCHANGED << histVars, storeVars, topVars, tracks, plotVars, zoomVars,
                    flagVars >>

\* WellLogViewer.load_template with the file save_template wrote
load_template ==
    /\ template_file # <<>>
    /\ LET tr == apply_template(template_file[1])
       IN  /\ tracks' = tr
           /\ SetPlot(update_plot(selected_wells(well_list, well_checked), tr,
                                  well_tops, selected_top_names, show_well_tops,
                                  link_well_tops_enabled, share_y_axis_enabled))
    /\ lastOp' = Op("load_template", None, NoTuple, FALSE)
    /\ scen' = NoTuple
    /\ UNCHANGED << histVars, storeVars, topVars, zoomVars, flagVars, template_file >>

\* Files that are not templates: bytes pickle cannot read, and a pickled
\* dict without the 'track_settings' key.
BadTemplates == { "garbage", "no_track_settings" }

\* WellLogViewer.load_template with such a file.  pickle.load raises on
\* the first kind before anything is touched; on the second kind
\* apply_template has deleted every track, each with its update_plot, when
\* template_data['track_settings'] raises KeyError.  Nothing catches either.
load_bad_template(blob) ==
    /\ IF blob = "garbage"
       THEN UNCHANGED << tracks, plotVars >>
       ELSE /\ tracks' = <<>>
            /\ IF tracks = <<>>
               THEN UNCHANGED plotVars
               ELSE SetPlot(update_plot(selected_wells(well_list, well_checked),
                                        <<>>, well_tops, selected_top_names,
                                        show_well_tops, link_well_tops_enabled,
                                        share_y_axis_enabled))
    /\ lastOp' = Op("load_bad_template", None, NoTuple, TRUE)
    /\ scen' = NoTuple
    /\ UNCHANGED << histVars, storeVars, topVars, zoomVars, flagVars, template_file >>

(* ------------------------------ crosshair ------------------------------ *)

\* FigureWidget.on_mouse_move with event.inaxes set: mouse_moved is sent to
\* the connected widgets, then the widget draws its own crosshair.
MouseMoveResult(fw, w, x, y) ==
    [p \in DOMAIN fw |->
        IF p = w THEN update_crosshair(fw[p], x, y, FALSE)
        ELSE IF p \in fw[w].peers THEN on_external_crosshair(fw[p], x, y)
        ELSE fw[p]]

on_mouse_move(w, pt) ==
    /\ w \in DOMAIN figure_widgets
    /\ figure_widgets' = MouseMoveResult(figure_widgets, w, pt[1], pt[2])
    /\ lastOp' = Op("hover", w, pt, FALSE)
    /\ UNCHANGED template_file
    /\ scen' = NoTuple
    /\ UNCHANGED << histVars, storeVars, topVars, tracks, figure_layout, conn_widgets,
                    zoomVars, flagVars >>

\* The pointer leaves the axes of w: the next motion event has
\* event.inaxes = None (or none arrives), and on_mouse_move does nothing.
on_mouse_leave(w) ==
    /\ w \in DOMAIN figure_widgets
    /\ lastOp.op = "hover" /\ lastOp.well = w
    /\ lastOp' = Op("leave", w, NoTuple, FALSE)
    /\ UNCHANGED template_file
    /\ scen' = NoTuple
    /\ UNCHANGED << histVars, storeVars, topVars, tracks, plotVars, zoomVars, flagVars >>

(* --------------------------- specifications ---------------------------- *)

LoadLas == \E batch \in LasBatches : \E k \in 0..Len(batch) : load_las_files(batch, k)
LoadLasFirst == \E k \in 0..3 : load_las_files(<< "w1.las", "bad.las", "w2.las" >>, k)
SelectWell == \E w \in WellNames : WellItemChanged(w)
DeleteTrack == \E i \in 1..MaxTracks : delete_track(i)
ZoomGesture == \E w \in WellNames : \E g \in ZoomDrags : onMouseRelease(w, g)
ClickGesture == \E w \in WellNames : \E g \in ZoomClicks : onMouseRelease(w, g)
LoadTops == \E rows \in TopFiles : \E k \in 0..Len(rows) : load_well_tops(rows, k)
SelectTop == \E top \in top_items : well_top_item_changed(top)
Hover == \E w \in WellNames : \E pt \in HoverPoints : on_mouse_move(w, pt)
Leave == \E w \in WellNames : on_mouse_leave(w)

\* The zoom coordinator and the axis linker
Next ==
    \/ LoadLasFirst
    \/ add_track
    \/ SelectWell
    \/ ZoomGesture
    \/ undoZoom
    \/ resetZoom
    \/ onSyncZoomToggled

Spec == Init /\ [][Next]_vars

\* Clicks without drag, in the mode the viewer starts in
NextClick ==
    \/ LoadLasFirst
    \/ SelectWell
    \/ ZoomGesture
    \/ ClickGesture
    \/ undoZoom
    \/ resetZoom

SpecClick == Init /\ [][NextClick]_vars

\* The crosshair broadcaster
NextCross ==
    \/ LoadLas
    \/ SelectWell
    \/ add_track
    \/ DeleteTrack
    \/ Hover
    \/ Leave

SpecCross == Init /\ [][NextCross]_vars

\* The top correlation linker
NextTops ==
    \/ LoadLas
    \/ SelectWell
    \/ LoadTops
    \/ SelectTop
    \/ toggle_link_well_tops

SpecTops == Init /\ [][NextTops]_vars

\* The axis linker
NextAxis ==
    \/ LoadLas
    \/ SelectWell
    \/ add_track
    \/ ZoomGesture
    \/ resetZoom
    \/ onShareYAxisToggled

SpecAxis == Init /\ [][NextAxis]_vars

\* The global synchronization flags
NextFlags ==
    \/ LoadLasFirst
    \/ SelectWell
    \/ ZoomGesture
    \/ resetZoom
    \/ onSyncZoomToggled
    \/ onShareYAxisToggled
    \/ toggle_well_tops
    \/ toggle_link_well_tops

SpecFlags == Init /\ [][NextFlags]_vars

\* The track configuration and its templates
TrackEdit ==
    \E t \in 1..MaxTracks :
        \/ grid_stateChanged(t)
        \/ add_curve(t)
        \/ \E c \in 1..MaxCurves : \E style \in LineStyleItems :
              line_style_changed(t, c, style)
LoadBadTemplate == \E blob \in BadTemplates : load_bad_template(blob)

NextTemplate ==
    \/ LoadLasFirst
    \/ SelectWell
    \/ add_track
    \/ TrackEdit
    \/ save_template
    \/ load_template
    \/ LoadBadTemplate

SpecTemplate == Init /\ [][NextTemplate]_vars

\* The zoom mode switch around single-well zooms
NextMode ==
    \/ LoadLasFirst
    \/ add_track
    \/ SelectWell
    \/ ZoomGesture
    \/ onSyncZoomToggledAgain

SpecMode == Init /\ [][NextMode]_vars

\* The well-top markers of the panels
NextMarkers ==
    \/ LoadLasFirst
    \/ SelectWell
    \/ add_track
    \/ LoadTops
    \/ SelectTop
    \/ toggle_well_tops

SpecMarkers == Init /\ [][NextMarkers]_vars

(* ------------------------------- claims -------------------------------- *)

ZoomOf(p) == << p.lim, p.current_zoom_limits, p.zoom_history >>

ShowsRect(p, r) == \A a \in DOMAIN p.lim : p.lim[a] = RectLimits(r)

\* The panel shows the auto-fit limits of the last full redraw, with no
\* current zoom rect and an empty undo history.
IsAutoFit(p) ==
    /\ p.lim = AutoLimits(p.well_name, tracks)
    /\ p.current_zoom_limits = NoTuple
    /\ p.zoom_history = <<>>

\* C1: in Synchronized mode, once a zoom gesture with rect R on a visible
\* well has been handled, every visible panel's limits equal R.
C1_SyncZoomAppliesToAll ==
    (lastOp.op = "zoom" /\ sync_zoom_enabled) =>
        /\ DOMAIN figure_widgets = well_checked
        /\ \A w \in DOMAIN figure_widgets :
              /\ DOMAIN figure_widgets[w].lim # {}
              /\ ShowsRect(figure_widgets[w], lastOp.rect)

C1_Witness ==
    /\ lastOp.op = "zoom" /\ sync_zoom_enabled
    /\ Cardinality(DOMAIN figure_widgets) = 2
    /\ Len(tracks) > 0
    /\ \E w \in DOMAIN figure_widgets :
          w # lastOp.well /\ Len(figure_widgets[w].zoom_history) > 1

\* C2: in Single mode a zoom gesture on well w changes only panel(w): every
\* other visible panel keeps its limits, current zoom rect and undo history.
C2_SingleZoomOnlySource ==
    [][ (lastOp'.op = "zoom" /\ ~sync_zoom_enabled) =>
            \A p \in DOMAIN figure_widgets \ {lastOp'.well} :
                ZoomOf(figure_widgets'[p]) = ZoomOf(figure_widgets[p]) ]_vars

\* C3: zoom R1, zoom R2, undo() leaves the panel's limits equal to R1; a
\* second undo() leaves it at its auto-fit limits.
C3_UndoRestoresPrevious ==
    (scen # NoTuple /\ scen[3] # NoTuple) =>
        /\ scen[4] = 1 => ShowsRect(figure_widgets[scen[1]], scen[2])
        /\ scen[4] = 2 => figure_widgets[scen[1]].lim = AutoLimits(scen[1], tracks)

\* C4: a zoom gesture with a degenerate rect is rejected: no rect is
\* recorded, no history grows, no handler runs, no limits change.
C4_DegenerateRejected ==
    [][ (lastOp'.op = "zoom" /\ Degenerate(lastOp'.rect)) =>
            /\ figure_widgets' = figure_widgets
            /\ sync_zoom_limits' = sync_zoom_limits
            /\ single_zoom_limits' = single_zoom_limits
            /\ current_single_zoom_well' = current_single_zoom_well ]_vars

C6_ResetIdempotent ==
    [][ (lastOp.op = "reset" /\ lastOp'.op = "reset") =>
            UNCHANGED << figure_widgets, zoomVars >> ]_vars

C6_Witness ==
    /\ lastOp.op = "reset" /\ ~lastOp.raised
    /\ zoom_count > 0
    /\ \E w \in DOMAIN figure_widgets :
          /\ sync_zoom_enabled \/ lastOp.well = w
          /\ IsAutoFit(figure_widgets[w])

UndoTarget(p) == sync_zoom_enabled \/ current_single_zoom_well = p

\* C7 as claimed: undo() on a panel whose undo history is empty changes
\* neither its limits, nor its current zoom rect, nor its history.
C7_UndoOnEmptyIsNoOp ==
    [][ lastOp'.op = "undo" =>
            \A p \in DOMAIN figure_widgets :
                (UndoTarget(p) /\ figure_widgets[p].zoom_history = <<>>) =>
                    ZoomOf(figure_widgets'[p]) = ZoomOf(figure_widgets[p]) ]_vars

\* C7 as amended: undo() on a panel whose undo history is empty raises no
\* error and acts as a reset of that panel: its limits return to the
\* auto-fit limits of the last full redraw, its current zoom rect is
\* cleared and its history stays empty.
C7_UndoOnEmptyResets ==
    [][ lastOp'.op = "undo" =>
            \A p \in DOMAIN figure_widgets :
                (UndoTarget(p) /\ figure_widgets[p].zoom_history = <<>>) =>
                    /\ ~lastOp'.raised
                    /\ p \in DOMAIN figure_widgets'
                    /\ IsAutoFit(figure_widgets'[p]) ]_vars

C7_Witness ==
    /\ lastOp.op = "undo" /\ ~lastOp.raised
    /\ zoom_count > 0
    /\ \E p \in DOMAIN figure_widgets :
          /\ sync_zoom_enabled \/ lastOp.well = p
          /\ IsAutoFit(figure_widgets[p])
          /\ figure_widgets[p].lim # synchronizeYAxisLimits(figure_widgets,
                 selected_wells(well_list, well_checked))[p].lim

\* C8: after any recompute, a pointer move at (x, y) over a visible panel s
\* puts a horizontal line at y on every sub-axis of every other visible
\* panel, and the full crosshair in s.
C8_HoverReachesEveryPanel ==
    lastOp.op = "hover" =>
        \A p \in DOMAIN figure_widgets :
            /\ figure_widgets[p].crosshair_hlines =
                   [a \in DOMAIN figure_widgets[p].lim |-> lastOp.rect[2]]
            /\ p = lastOp.well =>
                   /\ figure_widgets[p].crosshair_vline = << lastOp.rect[1] >>
                   /\ figure_widgets[p].cursor_coords = lastOp.rect

\* C9: onHover(wellA, x, y) followed by the pointer leaving wellA leaves
\* every visible panel without crosshair artifacts.
C9_LeaveRemovesCrosshair ==
    lastOp.op = "leave" =>
        \A p \in DOMAIN figure_widgets :
            /\ figure_widgets[p].crosshair_hlines = <<>>
            /\ figure_widgets[p].crosshair_vline = NoTuple
            /\ figure_widgets[p].cursor_coords = NoTuple

TopEntries(well) == IF well \in DOMAIN well_tops THEN Range(well_tops[well]) ELSE {}
TopNames(well) == { e[1] : e \in TopEntries(well) }

\* C10: right after a recompute, the links drawn between an adjacent pair of
\* visible wells (A, B) are exactly the triples (name, depth_in_A, depth_in_B)
\* with name selected, (name, depth_in_A) a top of A and (name, depth_in_B) a
\* top of B; an unselected name, a name missing from either well and a well
\* without tops yield no link.
C10_LinksAreSelectedCommonTops ==
    lastOp.op = "other" =>
        \A i \in DOMAIN conn_widgets :
            LET c == conn_widgets[i]
                matches == { m \in TopEntries(c.left) \X TopEntries(c.right) :
                               m[1][1] = m[2][1] /\ m[1][1] \in selected_top_names }
            IN  c.links = { << m[1][1], m[1][2], m[2][2] >> : m \in matches }

\* C11: linksFor(A, B, S) and linksFor(B, A, S) match the same set of top
\* names, and the triples of one are the triples of the other with the two
\* depths swapped, for all wells A, B and selections S, repeated names included.
C11_LinksSymmetric ==
    \A A \in WellNames, B \in WellNames, S \in SUBSET top_items :
        LET ab == linksFor(well_tops, A, B, S)
            ba == linksFor(well_tops, B, A, S)
        IN  /\ { l[1] : l \in ab } = { l[1] : l \in ba }
            /\ ba = { << l[1], l[3], l[2] >> : l \in ab }

C11_Witness ==
    /\ lastOp.op = "other"
    /\ \E i \in DOMAIN conn_widgets :
          /\ conn_widgets[i].links # {}
          /\ conn_widgets[i].links =
                 linksFor(well_tops, conn_widgets[i].left, conn_widgets[i].right,
                          selected_top_names)
          /\ \E w \in {conn_widgets[i].left, conn_widgets[i].right} :
                \E e1, e2 \in TopEntries(w) : e1[1] = e2[1] /\ e1[2] # e2[2]

\* The depth window one axis shows: << smaller depth, larger depth >>.
DepthWindow(l) == << Min2(l[3], l[4]), Max2(l[3], l[4]) >>

\* C12: the shared range applied to the visible panels is (smallest minimum
\* depth, largest maximum depth) over the visible wells, whichever well is
\* first and whatever zoom a panel holds.
C12_SharedRangeIsUnion ==
    (lastOp.op \in {"other", "sharey_toggle"} /\ share_y_axis_enabled) =>
        \A w \in DOMAIN figure_widgets :
            \A a \in DOMAIN figure_widgets[w].lim :
                LET win == DepthWindow(figure_widgets[w].lim[a])
                IN  /\ \E v \in well_checked : win[1] = DepthMin(v)
                    /\ \A v \in well_checked : win[1] <= DepthMin(v)
                    /\ \E v \in well_checked : win[2] = DepthMax(v)
                    /\ \A v \in well_checked : win[2] >= DepthMax(v)

C12_Witness ==
    /\ lastOp.op = "sharey_toggle" /\ share_y_axis_enabled
    /\ figure_layout = << "W2", "W1" >>
    /\ Len(tracks) > 0
    /\ figure_widgets["W2"].current_zoom_limits # NoTuple
    /\ \A w \in DOMAIN figure_widgets : \A a \in DOMAIN figure_widgets[w].lim :
          DepthWindow(figure_widgets[w].lim[a]) = << 0, 200 >>

\* C13: while Y-axis linking is enabled, after every completed operation all
\* visible panels display one and the same depth window.
C13_LinkedPanelsShareWindow ==
    (share_y_axis_enabled /\ lastOp.op # "init") =>
        \A w1 \in DOMAIN figure_widgets, w2 \in DOMAIN figure_widgets :
            \A a1 \in DOMAIN figure_widgets[w1].lim :
                \A a2 \in DOMAIN figure_widgets[w2].lim :
                    DepthWindow(figure_widgets[w1].lim[a1]) =
                        DepthWindow(figure_widgets[w2].lim[a2])

\* C14: after every recompute the key set of the panel map is the set of
\* selected wells: one panel for each visible well, shown once in the
\* layout, none for a deselected well, and each panel belongs to its key.
C14_PanelsAreSelectedWells ==
    lastOp.op = "other" =>
        /\ DOMAIN figure_widgets = well_checked
        /\ \A w \in DOMAIN figure_widgets : figure_widgets[w].well_name = w
        /\ Range(figure_layout) = well_checked
        /\ Len(figure_layout) = Cardinality(well_checked)

C14_Witness ==
    /\ lastOp.op = "other"
    /\ wells = {"W1", "W2"}
    /\ current_single_zoom_well = "W1"
    /\ DOMAIN figure_widgets = {"W2"}
    /\ figure_layout = << "W2" >>

\* What a full recompute of the visible panels yields in the current state.
Recomputed ==
    update_plot(selected_wells(well_list, well_checked), tracks, well_tops,
                selected_top_names, show_well_tops, link_well_tops_enabled,
                share_y_axis_enabled)

\* What the panels show: the limits and the well-top markers of each panel.
DisplayOf(fw) == [w \in DOMAIN fw |-> << fw[w].lim, fw[w].well_top_lines >>]

GlobalFlags == << sync_zoom_enabled, share_y_axis_enabled,
                  link_well_tops_enabled, show_well_tops >>

\* C15: every mutation of a global synchronization flag is followed, within
\* the same event, by a full recompute of all visible panels: when the
\* event is over the panels and the links show what a recompute yields.
C15_FlagChangeRecomputes ==
    [][ GlobalFlags' # GlobalFlags =>
            ( /\ DisplayOf(figure_widgets) = DisplayOf(Recomputed.fw)
              /\ conn_widgets = Recomputed.conn )' ]_vars

\* C16: saving the track configuration as a template and loading it back
\* gives the same tracks in the same order, with the same curves and the
\* same settings of each track and curve.
C16_TemplateRoundTrip ==
    [][ (lastOp.op = "save_template" /\ lastOp'.op = "load_template") =>
            tracks' = tracks ]_vars

\* C17: loading a corrupt or malformed template raises nothing and leaves
\* the tracks, their curves and the visible wells as they were.
C17_BadTemplateLeavesState ==
    [][ lastOp'.op = "load_bad_template" =>
            /\ ~lastOp'.raised
            /\ tracks' = tracks
            /\ well_checked' = well_checked
            /\ DOMAIN figure_widgets' = DOMAIN figure_widgets ]_vars

\* C18: a batch load that is not cancelled skips each file that fails and
\* loads every other file: afterwards the store holds the wells it held plus
\* exactly the wells of the loadable files, each well once, the earlier
\* list entries unchanged.
C18_BatchLoadSkipsBadFiles ==
    [][ (lastOp'.op = "other" /\ lastOp'.rect # NoTuple
            /\ lastOp'.rect[2] = Len(lastOp'.rect[1])) =>
            LET batch == lastOp'.rect[1]
                loadable == { LasWell(f) : f \in Range(batch) } \ {None}
            IN  /\ wells' = wells \cup loadable
                /\ Range(well_list') = wells'
                /\ Len(well_list') = Cardinality(wells')
                /\ SubSeq(well_list', 1, Len(well_list)) = well_list ]_vars

C18_Witness ==
    /\ lastOp.op = "other"
    /\ lastOp.rect = << << "w1.las", "bad.las", "w2.las" >>, 3 >>
    /\ well_list = << "W1", "W2" >>
    /\ wells = {"W1", "W2"}

\* C19: every visible panel has exactly one zoom handler connected, of the
\* kind of the current mode, and a zoom gesture pushes exactly one entry on
\* the undo history of each panel it affects.
C19_OneHandlerOfCurrentMode ==
    /\ \A w \in DOMAIN figure_widgets :
          /\ figure_widgets[w].nSync = (IF sync_zoom_enabled THEN 1 ELSE 0)
          /\ figure_widgets[w].nSingle = (IF sync_zoom_enabled THEN 0 ELSE 1)
    /\ (scen # NoTuple /\ scen[3] = NoTuple /\ scen[4] = 0) =>
          Len(figure_widgets[scen[1]].zoom_history) = 1

\* C20: when the mode is switched from Single to Synchronized while a
\* single-well zoom R is recorded, the synchronized zoom becomes R and every
\* visible panel shows R; with no single-well zoom recorded the switch
\* changes no panel's limits.
C20_SwitchPromotesSingleZoom ==
    [][ (lastOp'.op = "sync_toggle" /\ ~sync_zoom_enabled /\ sync_zoom_enabled') =>
           IF single_zoom_limits # NoTuple
           THEN /\ sync_zoom_limits' = single_zoom_limits
                /\ \A w \in DOMAIN figure_widgets' :
                      ShowsRect(figure_widgets'[w], single_zoom_limits)
           ELSE /\ DOMAIN figure_widgets' = DOMAIN figure_widgets
                /\ \A w \in DOMAIN figure_widgets :
                      figure_widgets'[w].lim = figure_widgets[w].lim ]_vars

\* The switch has just carried the zoom of one well over to the panel of
\* another well, whose only history entry is the promoted rect.
C20_Witness ==
    /\ lastOp.op = "sync_toggle"
    /\ sync_zoom_enabled
    /\ single_zoom_limits # NoTuple
    /\ sync_zoom_limits = single_zoom_limits
    /\ \E w \in DOMAIN figure_widgets :
          /\ w # current_single_zoom_well
          /\ DOMAIN figure_widgets[w].lim # {}
          /\ figure_widgets[w].zoom_history = << single_zoom_limits >>
          /\ ShowsRect(figure_widgets[w], single_zoom_limits)

\* C21: an undo touches exactly the targeted panels.  In Synchronized mode
\* each visible panel pops at most one entry of its own history and shows the
\* popped rect, whatever the other panels hold; in Single mode only the panel
\* of the last-zoomed well may pop, and the limits, current zoom and history of
\* every other panel are unchanged.
C21_UndoTouchesTargetedPanels ==
    [][ lastOp'.op = "undo" =>
          /\ DOMAIN figure_widgets' = DOMAIN figure_widgets
          /\ \A w \in DOMAIN figure_widgets :
                LET h == figure_widgets[w].zoom_history
                    q == figure_widgets'[w]
                IN  IF sync_zoom_enabled
                    THEN IF h # <<>>
                         THEN /\ q.zoom_history = SubSeq(h, 1, Len(h) - 1)
                              /\ q.current_zoom_limits = h[Len(h)]
                              /\ ShowsRect(q, h[Len(h)])
                         ELSE q.zoom_history = <<>>
                    ELSE IF w = current_single_zoom_well
                         THEN Len(q.zoom_history) >= Len(h) - 1
                         ELSE ZoomOf(q) = ZoomOf(figure_widgets[w]) ]_vars

\* A synchronized undo has just popped one entry from two panels whose
\* histories have different lengths.
C21_Witness ==
    /\ lastOp.op = "undo"
    /\ sync_zoom_enabled
    /\ \E w1, w2 \in DOMAIN figure_widgets :
          /\ Len(figure_widgets[w1].zoom_history) > Len(figure_widgets[w2].zoom_history)
          /\ figure_widgets[w1].current_zoom_limits # NoTuple
          /\ figure_widgets[w2].current_zoom_limits # NoTuple
          /\ figure_widgets[w1].lim # <<>>

\* The events whose handler is a full redraw of the visible panels.
RecomputeOps == {"other", "sharey_toggle", "load_well_tops", "load_template"}

\* C22: a full redraw leaves the undo history of every panel that stays
\* visible as it was; a history becomes empty only by a reset or an undo, and
\* a panel goes away only when its well is no longer checked.
C22_RecomputeKeepsHistory ==
    [][ /\ \A w \in DOMAIN figure_widgets \cap DOMAIN figure_widgets' :
              LET h == figure_widgets[w].zoom_history
                  g == figure_widgets'[w].zoom_history
              IN  /\ lastOp'.op \in RecomputeOps => g = h
                  /\ (h # <<>> /\ g = <<>>) => lastOp'.op \in {"reset", "undo"}
        /\ \A w \in DOMAIN figure_widgets \ DOMAIN figure_widgets' :
              w \notin well_checked' ]_vars

\* A redraw has just run on a panel that holds undo entries and a current
\* zoom.
C22_Witness ==
    /\ lastOp.op = "other"
    /\ \E w \in DOMAIN figure_widgets :
          /\ Len(figure_widgets[w].zoom_history) >= 2
          /\ figure_widgets[w].current_zoom_limits # NoTuple
          /\ figure_widgets[w].lim # <<>>

\* The panels that show a vertical crosshair line or a coordinate label.
FullCrosshairPanels ==
    { p \in DOMAIN figure_widgets :
         \/ figure_widgets[p].crosshair_vline # NoTuple
         \/ figure_widgets[p].cursor_coords # NoTuple }

\* C23: at most one visible panel shows a vertical crosshair line and a
\* coordinate label; right after a pointer move it is the hovered panel, and
\* every other panel shows horizontal lines only, at the hovered depth.
C23_OneFullCrosshair ==
    /\ Cardinality(FullCrosshairPanels) <= 1
    /\ lastOp.op = "hover" =>
          /\ FullCrosshairPanels = {lastOp.well}
          /\ \A p \in DOMAIN figure_widgets \ {lastOp.well} :
                figure_widgets[p].crosshair_hlines =
                    [a \in DOMAIN figure_widgets[p].lim |-> lastOp.rect[2]]

\* The markers a panel shows, as (top name, depth) pairs.
MarkersOf(w) == Range(figure_widgets[w].well_top_lines)

\* C24: with at least one track, the markers drawn in the panel of a well are
\* exactly the tops of that well whose name is selected when well tops are
\* shown, and none otherwise; no panel shows a top of another well.
C24_MarkersAreSelectedOwnTops ==
    Len(tracks) > 0 =>
        \A w \in DOMAIN figure_widgets :
            MarkersOf(w) = IF show_well_tops
                           THEN { e \in TopEntries(w) : e[1] \in selected_top_names }
                           ELSE {}

\* C25: after any sequence of well-top loads the tops stored for one well all
\* have different names.
C25_TopNamesUniquePerWell ==
    \A w \in DOMAIN well_tops :
        \A i, j \in DOMAIN well_tops[w] :
            i # j => well_tops[w][i][1] # well_tops[w][j][1]

\* C26: the last-zoomed well is unset or a visible well, and neither an undo
\* nor a reset raises.
C26_LastZoomedWellIsVisible ==
    /\ current_single_zoom_well \in {None} \cup DOMAIN figure_widgets
    /\ lastOp.op \in {"undo", "reset"} => ~lastOp.raised

\* C27: a full redraw with an unchanged set of visible wells leaves the
\* current zoom rect of every panel as the last gesture, undo or reset left
\* it.
C27_RecomputeKeepsCurrentZoom ==
    [][ (lastOp'.op \in RecomputeOps /\ DOMAIN figure_widgets' = DOMAIN figure_widgets) =>
           \A w \in DOMAIN figure_widgets :
               figure_widgets'[w].current_zoom_limits =
                   figure_widgets[w].current_zoom_limits ]_vars

\* C28: a panel that holds a current zoom rect displays that rect on every
\* sub-axis.
C28_DisplayEqualsCurrentZoom ==
    \A w \in DOMAIN figure_widgets :
        figure_widgets[w].current_zoom_limits # NoTuple =>
            ShowsRect(figure_widgets[w], figure_widgets[w].current_zoom_limits)

\* C29: the set of selected top names is the set of top names whose list
\* entry is checked.
C29_SelectedNamesAreCheckedEntries ==
    selected_top_names = top_checked

\* "Undo Zoom" pressed n times in Synchronized mode, nothing in between.
RECURSIVE UndoTimes(_, _)
UndoTimes(Z, n) ==
    IF n = 0 THEN Z ELSE UndoTimes(undoZoomResult(Z, TRUE).z, n - 1)

LongestHistory ==
    SetMax({0} \cup { Len(figure_widgets[w].zoom_history) : w \in DOMAIN figure_widgets })

\* C30: in Synchronized mode, (longest history length + 1) undos in a row
\* bring every visible panel to its auto-fit limits with no current zoom rect
\* and an empty history, and a further undo changes nothing.
C30_RepeatedUndoReachesAutoFit ==
    sync_zoom_enabled =>
        LET Z == UndoTimes(CurrentZoomState, LongestHistory + 1)
        IN  /\ DOMAIN Z.fw = DOMAIN figure_widgets
            /\ \A w \in DOMAIN Z.fw : IsAutoFit(Z.fw[w])
            /\ undoZoomResult(Z, TRUE) = [z |-> Z, raised |-> FALSE]

\* Part-way through a run of undos: two panels with histories of different
\* lengths, the longer one still holding two entries.
C30_Witness ==
    /\ sync_zoom_enabled
    /\ lastOp.op = "undo"
    /\ \E w1, w2 \in DOMAIN figure_widgets :
          /\ Len(figure_widgets[w1].zoom_history) >= 2
          /\ Len(figure_widgets[w2].zoom_history) < Len(figure_widgets[w1].zoom_history)
          /\ figure_widgets[w1].lim # <<>>

====
